---- MODULE Spec2Model ----
(***************************************************************************)
(* Model of src/backend.py: the Transperth departure pipeline.             *)
(*                                                                         *)
(*   get_session / fetch_page_tokens / get_tokens   token cache            *)
(*   calculate_minutes_until                        time normalisation     *)
(*   fetch_all_departures                           request + extraction   *)
(*   get_departures                                 /api/departures        *)
(*                                                                         *)
(* A request handler is a thread of the Flask server.  Each handler walks  *)
(* through the statements of get_departures -> fetch_all_departures ->     *)
(* get_tokens -> fetch_page_tokens; every read or write of the shared      *)
(* TOKEN_CACHE dictionary is a step of its own, the upstream's answers are *)
(* inputs chosen by the environment.                                       *)
(*                                                                         *)
(* /api/test, /api/health and the info page do not write TOKEN_CACHE and  *)
(* are not modelled.                                                       *)
(*                                                                         *)
(*   Spec      one handler at a time (requests do not overlap)             *)
(*   SpecConc  two handlers, every interleaving of their steps             *)
(***************************************************************************)
EXTENDS Integers, Sequences, FiniteSets, TLC

(* ------------------------------ bounds --------------------------------- *)

\* number of server threads handling requests
NumThreads == 2
\* the clock advances in steps of TickStep seconds, up to MaxTime
TickStep == 150
MaxTime == 600
\* ... and up to MaxTimeConc when handlers overlap
MaxTimeConc == 300
\* free trip lists of an upstream answer have at most MaxTrips entries
MaxTrips == 2
\* length of the long (alternating) trip lists
LongLen == 12

(* ------------------------- program constants --------------------------- *)

\* get_tokens: "age < 300"
TTL == 300
\* get_departures: perth[:10], south[:10]
BucketCap == 10
\* PERTH_TZ, UTC+8, in seconds
PerthOffset == 28800

Threads == 1..NumThreads
\* the handler of the sequential specification
SeqThreads == {1}

(* ------------------------------ values --------------------------------- *)

\* Python's None where a datetime or an int is expected
None == [t |-> "none", v |-> 0]
Dt(n) == [t |-> "datetime", v |-> n]
IntV(n) == [t |-> "int", v |-> n]
\* Python's None where a token string is expected
NoneTok == "None"
\* the token values a landing page can carry
Tokens == {"tokA", "tokB"}

\* bool(x) of a token value: None and '' are falsy
Truthy(tok) == tok # NoneTok /\ tok # ""

\* TOKEN_CACHE as the module defines it
InitCache ==
  [verification_token |-> NoneTok, module_id |-> "5111", tab_id |-> "248",
   timestamp |-> None]

(* ------------------------ upstream inputs ------------------------------ *)

\* DepartTime of a trip record: an ISO-8601 string with wall-clock seconds
\* `wall` and, when `aware`, a UTC offset of `off` seconds; or anything that
\* datetime.fromisoformat rejects (k = "bad": '', a missing key, a number).
IsoNaive(instant) ==
  [k |-> "iso", wall |-> instant + PerthOffset, aware |-> FALSE, off |-> 0]
IsoUtc(instant) == [k |-> "iso", wall |-> instant, aware |-> TRUE, off |-> 0]
BadTime == [k |-> "bad", wall |-> 0, aware |-> FALSE, off |-> 0]

\* A trip record of the JSON answer.  shape = "bad": not a dict, or a
\* 'Summary' that is not a dict.  direction = "missing": no 'Direction' key.
Trip(title, headsign, direction, depart) ==
  [shape |-> "dict", title |-> title, headsign |-> headsign,
   direction |-> direction, depart |-> depart]
BadTrip ==
  [shape |-> "bad", title |-> "", headsign |-> "", direction |-> "missing",
   depart |-> BadTime]

TripPool ==
  { Trip("Perth", "Perth Stn", "0", IsoNaive(420)),
    Trip("", "Fremantle", "1", IsoUtc(59)),
    Trip("Perth", "", "0", IsoNaive(125)),
    Trip("", "", "missing", IsoNaive(600)),
    Trip("Midland", "", "2", IsoUtc(300)),
    Trip("Armadale", "", "1", BadTime),
    Trip("Mandurah", "", "1", IsoNaive(420)),
    BadTrip }

\* the trip lists an answer can carry: every list of at most MaxTrips pool
\* trips, and the lists of LongLen trips alternating between two pool trips
LongList(a, b) == [i \in 1..LongLen |-> IF i % 2 = 1 THEN a ELSE b]
TripLists ==
  UNION {[1..n -> TripPool] : n \in 0..MaxTrips}
    \cup {LongList(a, b) : a \in TripPool, b \in TripPool}

\* what session.get(LIVE_TIMES_URL) can come back with
LandingOutcomes == {"ok", "no_token", "403", "500", "exception"}

\* what session.post(API_URL) can come back with
Resp(kind, trips) == [kind |-> kind, trips |-> trips]
FailureKinds ==
  {"timeout", "conn_error", "403", "500", "undecodable", "not_dict",
   "not_success", "trips_not_list"}
Responses ==
  {Resp(k, <<>>) : k \in FailureKinds}
    \cup {Resp("success", l) : l \in TripLists}

\* the answers drawn where termination is checked: every failure, and the
\* "success" answers of at most one trip
ResponsesLive ==
  {Resp(k, <<>>) : k \in FailureKinds}
    \cup {Resp("success", l) : l \in UNION {[1..n -> TripPool] : n \in 0..1}}

\* the answers drawn when handlers overlap
LandingOutcomesConc == {"ok", "403"}
ResponsesConc == {Resp("403", <<>>), Resp("success", <<>>)}

(* ------------------- calculate_minutes_until --------------------------- *)

\* int(x / 60) for x in seconds: Python's int() truncates towards zero
IntDiv60(x) == IF x >= 0 THEN x \div 60 ELSE -((-x) \div 60)

\* as Max0, without the clamp
Max0Unclamped(n) == n

\* max(0, n)
Max0(n) == IF n < 0 THEN 0 ELSE n

\* as Instant, with a naive datetime read as UTC
InstantNaiveUtc(d) == d.wall - d.off

\* the instant of a parsed DepartTime: a naive datetime gets PERTH_TZ
Instant(d) == d.wall - (IF d.aware THEN d.off ELSE PerthOffset)

CalculateMinutesUntil(depart, nowI) ==
  IF depart.k # "iso"
    THEN None
    ELSE IntV(Max0(IntDiv60(Instant(depart) - nowI)))

(* -------------------- fetch_all_departures: rows ----------------------- *)

\* `minutes is None`: the row is skipped
SkipRow(minutes) == minutes = None

\* one iteration of `for trip in trips`: the departures it appends
ExtractTrip(trip, nowI) ==
  IF trip.shape # "dict"
    THEN <<>>
    ELSE LET minutes == CalculateMinutesUntil(trip.depart, nowI) IN
         IF SkipRow(minutes)
           THEN <<>>
           ELSE << [destination |->
                      IF trip.title # "" THEN trip.title ELSE trip.headsign,
                    minutes |-> minutes,
                    direction |->
                      IF trip.direction = "missing" THEN "0"
                      ELSE trip.direction] >>

RECURSIVE ExtractTrips(_, _)
ExtractTrips(trips, nowI) ==
  IF trips = <<>>
    THEN <<>>
    ELSE ExtractTrip(Head(trips), nowI) \o ExtractTrips(Tail(trips), nowI)

(* ---------------------- get_departures: buckets ------------------------ *)

\* as InsertByMinutes, with d put in front of the entries of equal key
RECURSIVE InsertByMinutesUnstable(_, _)
InsertByMinutesUnstable(s, d) ==
  IF s = <<>> THEN <<d>>
  ELSE IF d.minutes.v <= Head(s).minutes.v THEN <<d>> \o s
  ELSE <<Head(s)>> \o InsertByMinutesUnstable(Tail(s), d)

\* list.sort(key=minutes) is stable: d goes behind every entry whose key is
\* not greater
RECURSIVE InsertByMinutes(_, _)
InsertByMinutes(s, d) ==
  IF s = <<>> THEN <<d>>
  ELSE IF d.minutes.v < Head(s).minutes.v THEN <<d>> \o s
  ELSE <<Head(s)>> \o InsertByMinutes(Tail(s), d)

RECURSIVE SortFrom(_, _)
SortFrom(done, rest) ==
  IF rest = <<>> THEN done
  ELSE SortFrom(InsertByMinutes(done, Head(rest)), Tail(rest))

SortByMinutes(s) == SortFrom(<<>>, s)

\* s[:n]
Take(s, n) == SubSeq(s, 1, IF Len(s) < n THEN Len(s) ELSE n)

InDirection(all_deps, code) == SelectSeq(all_deps, LAMBDA d : d.direction = code)

\* as Bucket, without the sort
BucketUnsorted(all_deps, code) == Take(InDirection(all_deps, code), BucketCap)

\* perth / south of get_departures: filter, sort, [:10]
Bucket(all_deps, code) == Take(SortByMinutes(InDirection(all_deps, code)), BucketCap)

(* ------------------------------ state ---------------------------------- *)

VARIABLES
  now,           \* the wall clock, in seconds
  TOKEN_CACHE,   \* the module's TOKEN_CACHE dictionary
  SESSION,       \* the module's SESSION: 0 is None, n > 0 the n-th Session made
  sessionsMade,  \* requests.Session() calls so far
  pc,            \* pc[r]: the statement handler r is at
  frame,         \* frame[r]: the locals of handler r (ref: the now() its
                 \* rows were normalised against)
  hist,          \* hist[r]: what handler r's invocation has done so far
  fetched,       \* the (token, timestamp) pairs fetch_page_tokens has returned
  last403        \* the invocation that returned last got an HTTP 403

vars ==
  <<now, TOKEN_CACHE, SESSION, sessionsMade, pc, frame, hist, fetched, last403>>

\* fetch_page_tokens returns None
NoTokens == [ok |-> FALSE, verification_token |-> NoneTok, timestamp |-> None]

NoResponse ==
  [status |-> 0, success |-> FALSE, buckets |-> FALSE, perth |-> <<>>,
   south |-> <<>>]

InitFrame ==
  [ret |-> "", session |-> 0, ts |-> None, seenTok |-> NoneTok,
   tokens |-> NoTokens, hdrTok |-> NoneTok, trips |-> <<>>, ref |-> 0,
   raised |-> FALSE, all_deps |-> <<>>, response |-> NoResponse]

InitHist ==
  [gets |-> 0, posts |-> 0, fresh |-> NoneTok, expired |-> FALSE,
   landingFailed |-> FALSE, denied |-> FALSE, afterDenied |-> 0,
   prev403 |-> FALSE, outcome |-> ""]

Init ==
  /\ now = 0
  /\ TOKEN_CACHE = InitCache
  /\ SESSION = 0
  /\ sessionsMade = 0
  /\ pc = [r \in Threads |-> "idle"]
  /\ frame = [r \in Threads |-> InitFrame]
  /\ hist = [r \in Threads |-> InitHist]
  /\ fetched = {}
  /\ last403 = FALSE

(* ------------------------------ clock ----------------------------------- *)

Tick(maxTime) ==
  /\ now + TickStep <= maxTime
  /\ now' = now + TickStep
  /\ UNCHANGED <<TOKEN_CACHE, SESSION, sessionsMade, pc, frame, hist, fetched,
                 last403>>

(* --------------------------- get_departures ----------------------------- *)

\* GET /api/departures arrives: get_departures calls fetch_all_departures,
\* which calls get_tokens
Start(r) ==
  /\ pc[r] = "idle"
  /\ pc' = [pc EXCEPT ![r] = "gt122"]
  /\ frame' = [frame EXCEPT ![r] = InitFrame]
  /\ hist' = [hist EXCEPT ![r] = [InitHist EXCEPT !.prev403 = last403]]
  /\ UNCHANGED <<now, TOKEN_CACHE, SESSION, sessionsMade, fetched, last403>>

(* ------------------------------ get_tokens ------------------------------ *)

\* as AgeFresh, with the window's end included
AgeFreshInclusive(age) == age <= TTL

\* age < 300
AgeFresh(age) == age < TTL

\* `if TOKEN_CACHE['timestamp']:`
GetTokens122(r) ==
  /\ pc[r] = "gt122"
  /\ pc' = [pc EXCEPT ![r] =
              IF TOKEN_CACHE.timestamp # None THEN "gt123" ELSE "fpt71"]
  /\ UNCHANGED <<now, TOKEN_CACHE, SESSION, sessionsMade, frame, hist, fetched,
                 last403>>

\* `age = (datetime.now() - TOKEN_CACHE['timestamp']).total_seconds()` and the
\* first operand of `age < 300 and ...`
GetTokens123(r) ==
  /\ pc[r] = "gt123"
  /\ LET ts == TOKEN_CACHE.timestamp
         age == now - ts.v
     IN /\ frame' = [frame EXCEPT ![r].ts = ts]
        /\ hist' = [hist EXCEPT
                      ![r].fresh =
                        IF now - ts.v < TTL /\ Truthy(TOKEN_CACHE.verification_token)
                          THEN TOKEN_CACHE.verification_token ELSE NoneTok,
                      ![r].expired = now - ts.v >= TTL]
        /\ pc' = [pc EXCEPT ![r] = IF AgeFresh(age) THEN "gt124" ELSE "fpt71"]
  /\ UNCHANGED <<now, TOKEN_CACHE, SESSION, sessionsMade, fetched, last403>>

\* the second operand, `TOKEN_CACHE['verification_token']`, and
\* `return TOKEN_CACHE`: the dictionary itself, not a copy
GetTokens124(r) ==
  /\ pc[r] = "gt124"
  /\ frame' = [frame EXCEPT ![r].seenTok = TOKEN_CACHE.verification_token]
  /\ pc' = [pc EXCEPT ![r] =
              IF Truthy(TOKEN_CACHE.verification_token) THEN "fad156"
              ELSE "fpt71"]
  /\ UNCHANGED <<now, TOKEN_CACHE, SESSION, sessionsMade, hist, fetched,
                 last403>>

(* ------------------------------ get_session ----------------------------- *)

\* `if SESSION is None:`
GetSession42(r) ==
  /\ pc[r] \in {"fpt71", "fad160"}
  /\ pc' = [pc EXCEPT ![r] = IF SESSION = 0 THEN "gs43" ELSE "gs62"]
  /\ frame' = [frame EXCEPT ![r].ret = IF pc[r] = "fpt71" THEN "fpt74" ELSE "fad186"]
  /\ UNCHANGED <<now, TOKEN_CACHE, SESSION, sessionsMade, hist, fetched,
                 last403>>

\* `SESSION = requests.Session()` and its headers
GetSession43(r) ==
  /\ pc[r] = "gs43"
  /\ sessionsMade' = sessionsMade + 1
  /\ SESSION' = sessionsMade + 1
  /\ pc' = [pc EXCEPT ![r] = "gs62"]
  /\ UNCHANGED <<now, TOKEN_CACHE, frame, hist, fetched, last403>>

\* `return SESSION`
GetSession62(r) ==
  /\ pc[r] = "gs62"
  /\ frame' = [frame EXCEPT ![r].session = SESSION]
  /\ pc' = [pc EXCEPT ![r] = frame[r].ret]
  /\ UNCHANGED <<now, TOKEN_CACHE, SESSION, sessionsMade, hist, fetched,
                 last403>>

(* --------------------------- fetch_page_tokens -------------------------- *)

\* what fetch_page_tokens returns for the landing page's answer: the token
\* dictionary, stamped datetime.now(), for a 200 page carrying a non-empty
\* token; None for a 403, any other status, a page without a token, and any
\* exception
FetchPageTokensResult(outcome, tok, t) ==
  IF outcome = "ok"
    THEN [ok |-> TRUE, verification_token |-> tok, timestamp |-> Dt(t)]
    ELSE NoTokens

\* `response = session.get(LIVE_TIMES_URL, timeout=15)`: the request goes out
FetchPageTokens74(r) ==
  /\ pc[r] = "fpt74"
  /\ hist' = [hist EXCEPT ![r].gets = @ + 1,
                          ![r].afterDenied = IF hist[r].denied THEN @ + 1 ELSE @]
  /\ pc' = [pc EXCEPT ![r] = "fpt_wait"]
  /\ UNCHANGED <<now, TOKEN_CACHE, SESSION, sessionsMade, frame, fetched,
                 last403>>

\* the answer (or the timeout) arrives and fetch_page_tokens returns
FetchPageTokensReturn(r, outcomes) ==
  /\ pc[r] = "fpt_wait"
  /\ \E outcome \in outcomes, tok \in Tokens :
       LET tokens == FetchPageTokensResult(outcome, tok, now) IN
       /\ frame' = [frame EXCEPT ![r].tokens = tokens]
       /\ hist' = [hist EXCEPT ![r].landingFailed = outcome # "ok",
                               ![r].denied = @ \/ outcome = "403"]
       /\ fetched' = IF outcome = "ok"
                       THEN fetched \cup {<<tok, Dt(now)>>} ELSE fetched
  /\ pc' = [pc EXCEPT ![r] = "gt129"]
  /\ UNCHANGED <<now, TOKEN_CACHE, SESSION, sessionsMade, last403>>

\* TOKEN_CACHE.update(tokens)
CacheUpdate(cache, tokens) ==
  [cache EXCEPT !.verification_token = tokens.verification_token,
                !.timestamp = tokens.timestamp]

\* `if tokens: TOKEN_CACHE.update(tokens)` and `return TOKEN_CACHE`
GetTokens129(r) ==
  /\ pc[r] = "gt129"
  /\ TOKEN_CACHE' = IF frame[r].tokens.ok
                      THEN CacheUpdate(TOKEN_CACHE, frame[r].tokens)
                      ELSE TOKEN_CACHE
  /\ pc' = [pc EXCEPT ![r] = "fad156"]
  /\ UNCHANGED <<now, SESSION, sessionsMade, frame, hist, fetched, last403>>

(* ------------------------- fetch_all_departures ------------------------- *)

\* as TokenAvailable, without the test
TokenAvailableAlways(cache) == TRUE

\* `tokens.get('verification_token')`, tokens being TOKEN_CACHE itself
TokenAvailable(cache) == Truthy(cache.verification_token)

\* `if not tokens.get('verification_token'): return []`
FetchAll156(r) ==
  /\ pc[r] = "fad156"
  /\ IF TokenAvailable(TOKEN_CACHE)
       THEN /\ pc' = [pc EXCEPT ![r] = "fad160"]
            /\ UNCHANGED hist
       ELSE /\ pc' = [pc EXCEPT ![r] = "gd297"]
            /\ hist' = [hist EXCEPT ![r].outcome = "no_token"]
  /\ UNCHANGED <<now, TOKEN_CACHE, SESSION, sessionsMade, frame, fetched,
                 last403>>

\* the headers: 'RequestVerificationToken': tokens['verification_token']
FetchAll186(r) ==
  /\ pc[r] = "fad186"
  /\ frame' = [frame EXCEPT ![r].hdrTok = TOKEN_CACHE.verification_token]
  /\ pc' = [pc EXCEPT ![r] = "fad198"]
  /\ UNCHANGED <<now, TOKEN_CACHE, SESSION, sessionsMade, hist, fetched,
                 last403>>

\* `response = session.post(API_URL, ...)`: the request goes out
FetchAll198(r) ==
  /\ pc[r] = "fad198"
  /\ hist' = [hist EXCEPT ![r].posts = @ + 1,
                          ![r].afterDenied = IF hist[r].denied THEN @ + 1 ELSE @]
  /\ pc' = [pc EXCEPT ![r] = "post_wait"]
  /\ UNCHANGED <<now, TOKEN_CACHE, SESSION, sessionsMade, frame, fetched,
                 last403>>

\* lines 198-281 for one answer: the exception raised, if any, and the list
\* returned otherwise
PostBody(resp, nowI) ==
  CASE resp.kind = "timeout" -> [exc |-> "Timeout", deps |-> <<>>]
    [] resp.kind = "conn_error" -> [exc |-> "ConnectionError", deps |-> <<>>]
    [] resp.kind = "403" -> [exc |-> "", deps |-> <<>>]
    [] resp.kind = "500" -> [exc |-> "", deps |-> <<>>]
    [] resp.kind = "undecodable" -> [exc |-> "", deps |-> <<>>]
    [] resp.kind = "not_dict" -> [exc |-> "AttributeError", deps |-> <<>>]
    [] resp.kind = "not_success" -> [exc |-> "", deps |-> <<>>]
    [] resp.kind = "trips_not_list" -> [exc |-> "TypeError", deps |-> <<>>]
    [] OTHER -> [exc |-> "", deps |-> ExtractTrips(resp.trips, nowI)]

\* as Caught, for a handler that names the errors of the JSON decoding only
CaughtValueErrorOnly(exc) == exc = "ValueError"

\* `except Exception as e:` of fetch_all_departures
Caught(exc) == TRUE

\* what fetch_all_departures hands to its caller
FetchAllReturn(body) ==
  IF body.exc = "" THEN [raised |-> FALSE, deps |-> body.deps]
  ELSE IF Caught(body.exc) THEN [raised |-> FALSE, deps |-> <<>>]
  ELSE [raised |-> TRUE, deps |-> <<>>]

\* as AfterPost, with a timed-out request posted again
AfterPostRetryTimeout(kind) ==
  IF kind = "success" THEN "fad229"
  ELSE IF kind = "timeout" THEN "fad198"
  ELSE "gd297"

\* where fetch_all_departures goes once session.post has returned or raised:
\* on to `trips = data.get('trips', [])` for a 200 answer whose JSON says
\* "success", out of the function otherwise; it never goes back to the post
AfterPost(kind) == IF kind = "success" THEN "fad229" ELSE "gd297"

\* the answer (or the timeout) arrives: lines 198-227
FetchAllResponse(r, responses) ==
  /\ pc[r] = "post_wait"
  /\ \E resp \in responses :
       /\ frame' =
            IF resp.kind = "success"
              THEN [frame EXCEPT ![r].trips = resp.trips]
              ELSE LET ret == FetchAllReturn(PostBody(resp, now)) IN
                   [frame EXCEPT ![r].all_deps = ret.deps,
                                 ![r].raised = ret.raised]
       /\ hist' = [hist EXCEPT ![r].outcome = resp.kind,
                               ![r].denied = @ \/ resp.kind = "403"]
       /\ pc' = [pc EXCEPT ![r] = AfterPost(resp.kind)]
  /\ UNCHANGED <<now, TOKEN_CACHE, SESSION, sessionsMade, fetched, last403>>

\* `for trip in trips:` and `return departures`: lines 229-281
FetchAllExtract(r) ==
  /\ pc[r] = "fad229"
  /\ LET ret == FetchAllReturn(PostBody(Resp("success", frame[r].trips), now))
     IN frame' = [frame EXCEPT ![r].ref = now,
                               ![r].all_deps = ret.deps,
                               ![r].raised = ret.raised]
  /\ pc' = [pc EXCEPT ![r] = "gd297"]
  /\ UNCHANGED <<now, TOKEN_CACHE, SESSION, sessionsMade, hist, fetched,
                 last403>>

(* ----------------------------- get_departures --------------------------- *)

\* the body of get_departures after fetch_all_departures: the two buckets,
\* or the 500 answer of its own `except Exception`
GetDeparturesResponse(raised, all_deps) ==
  IF raised
    THEN [status |-> 500, success |-> FALSE, buckets |-> FALSE,
          perth |-> <<>>, south |-> <<>>]
    ELSE [status |-> 200, success |-> TRUE, buckets |-> TRUE,
          perth |-> Bucket(all_deps, "0"), south |-> Bucket(all_deps, "1")]

GetDepartures297(r) ==
  /\ pc[r] = "gd297"
  /\ frame' = [frame EXCEPT
                 ![r].response =
                   GetDeparturesResponse(frame[r].raised, frame[r].all_deps)]
  /\ pc' = [pc EXCEPT ![r] = "responded"]
  /\ UNCHANGED <<now, TOKEN_CACHE, SESSION, sessionsMade, hist, fetched,
                 last403>>

\* the response is sent; the handler is free for the next request
Finish(r) ==
  /\ pc[r] = "responded"
  /\ last403' = hist[r].denied
  /\ pc' = [pc EXCEPT ![r] = "idle"]
  /\ frame' = [frame EXCEPT ![r] = InitFrame]
  /\ hist' = [hist EXCEPT ![r] = InitHist]
  /\ UNCHANGED <<now, TOKEN_CACHE, SESSION, sessionsMade, fetched>>

(* ---------------------------- specifications ---------------------------- *)

\* the steps of a handler once its request has arrived
Work(r, outcomes, responses) ==
  \/ GetTokens122(r)
  \/ GetTokens123(r)
  \/ GetTokens124(r)
  \/ GetSession42(r)
  \/ GetSession43(r)
  \/ GetSession62(r)
  \/ FetchPageTokens74(r)
  \/ FetchPageTokensReturn(r, outcomes)
  \/ GetTokens129(r)
  \/ FetchAll156(r)
  \/ FetchAll186(r)
  \/ FetchAll198(r)
  \/ FetchAllResponse(r, responses)
  \/ FetchAllExtract(r)
  \/ GetDepartures297(r)
  \/ Finish(r)

Step(r, outcomes, responses) == Start(r) \/ Work(r, outcomes, responses)

\* requests arrive one after the other
Next ==
  Tick(MaxTime) \/ \E r \in SeqThreads : Step(r, LandingOutcomes, Responses)
Spec == Init /\ [][Next]_vars

\* a handler that has a request keeps running, and every upstream call is
\* answered or times out
NextLive ==
  \/ Tick(MaxTime)
  \/ \E r \in SeqThreads : Step(r, LandingOutcomes, ResponsesLive)
SpecLive ==
  /\ Init
  /\ [][NextLive]_vars
  /\ \A r \in SeqThreads : WF_vars(Work(r, LandingOutcomes, ResponsesLive))

\* requests overlap: the threaded server runs a handler per request
NextConc ==
  \/ Tick(MaxTimeConc)
  \/ \E r \in Threads : Step(r, LandingOutcomesConc, ResponsesConc)
SpecConc == Init /\ [][NextConc]_vars

(* ------------------------------- claims --------------------------------- *)

\* handler r has returned from get_tokens
PastGetTokens(r) ==
  \/ pc[r] \in {"fad156", "fad160", "fad186", "fad198", "post_wait", "fad229",
                "gd297", "responded"}
  \/ pc[r] \in {"gs43", "gs62"} /\ frame[r].ret = "fad186"

\* handler r is inside the fetch_page_tokens call of get_tokens
InRefresh(r) ==
  \/ pc[r] \in {"fpt71", "fpt74", "fpt_wait"}
  \/ pc[r] \in {"gs43", "gs62"} /\ frame[r].ret = "fpt74"

\* handler r's invocation is over
Returned(r) == pc[r] \in {"gd297", "responded"}

\* C1. Token cache reuse: a pipeline call that finds a cached token younger
\* than 300 s issues no landing-page GET and sends that token with its data
\* request; a call that finds the cached token 300 s old or older issues
\* exactly one landing-page GET.
C1_TokenCacheReuse ==
  \A r \in Threads :
    /\ hist[r].fresh # NoneTok =>
         /\ hist[r].gets = 0
         /\ frame[r].hdrTok # NoneTok => frame[r].hdrTok = hist[r].fresh
    /\ hist[r].expired =>
         /\ hist[r].gets <= 1
         /\ PastGetTokens(r) => hist[r].gets = 1

\* a second call inside the TTL window sends the cached token, without a GET
C1_Witness ==
  \E r \in Threads :
    /\ pc[r] = "post_wait"
    /\ hist[r].fresh # NoneTok
    /\ hist[r].gets = 0
    /\ frame[r].hdrTok = hist[r].fresh
    /\ now > frame[r].ts.v

\* C2. Token unavailable blocks the data fetch: an invocation whose
\* landing-page fetch failed issues no POST to the data endpoint and returns
\* an empty list, whatever TOKEN_CACHE holds.
C2_FailedLandingBlocksPost ==
  \A r \in Threads :
    hist[r].landingFailed =>
      /\ hist[r].posts = 0
      /\ Returned(r) => frame[r].all_deps = <<>>

\* C3. Access-denied invalidates the token: the pipeline call after one that
\* received an HTTP 403 refetches the landing page before its data request.
C3_RefetchAfter403 ==
  \A r \in Threads :
    (hist[r].prev403 /\ hist[r].posts > 0) => hist[r].gets > 0

\* C4. Timeout retry: an invocation fails on a timeout of its data request
\* only after a second attempt has timed out too.
C4_TimeoutRetried ==
  \A r \in Threads :
    (Returned(r) /\ hist[r].outcome = "timeout") => hist[r].posts = 2

\* C5. Access-denied is not retried: after a 403 an invocation issues no
\* further upstream request and ends with an empty departure list.
C5_NoRequestAfter403 ==
  \A r \in Threads :
    /\ hist[r].afterDenied = 0
    /\ (Returned(r) /\ hist[r].denied) => frame[r].all_deps = <<>>

\* C6. Single refresh in flight: at most one handler is inside the
\* fetch_page_tokens call of get_tokens at any time.
C6_SingleRefreshInFlight ==
  Cardinality({r \in Threads : InRefresh(r)}) <= 1

\* C7. Token cache is never partial: TOKEN_CACHE is the initial cache or holds
\* the token and the timestamp of one successful fetch, and the timestamp and
\* the token a reader of get_tokens has read belong to one fetch.
C7_CachePairFromOneFetch ==
  \/ TOKEN_CACHE = InitCache
  \/ /\ <<TOKEN_CACHE.verification_token, TOKEN_CACHE.timestamp>> \in fetched
     /\ TOKEN_CACHE.module_id = InitCache.module_id
     /\ TOKEN_CACHE.tab_id = InitCache.tab_id

C7_CacheNeverPartial ==
  /\ C7_CachePairFromOneFetch
  /\ \A r \in Threads :
       Truthy(frame[r].seenTok) => <<frame[r].seenTok, frame[r].ts>> \in fetched

\* C8. Failures never escape: for every failure outcome fetch_all_departures
\* returns an empty list without raising, and /api/departures answers 200
\* with two empty buckets.
C8_FailuresNeverEscape ==
  \A r \in Threads :
    (Returned(r) /\ hist[r].outcome \in FailureKinds \cup {"no_token"}) =>
      /\ frame[r].all_deps = <<>>
      /\ ~frame[r].raised
      /\ pc[r] = "responded" =>
           /\ frame[r].response.status = 200
           /\ frame[r].response.success
           /\ frame[r].response.buckets
           /\ frame[r].response.perth = <<>>
           /\ frame[r].response.south = <<>>

\* a timed-out data request answered with two empty buckets
C8_Witness ==
  \E r \in Threads :
    /\ pc[r] = "responded"
    /\ hist[r].outcome = "timeout"
    /\ hist[r].posts = 1
    /\ frame[r].response.buckets
    /\ frame[r].response.perth = <<>>

SortedByMinutes(s) ==
  \A i \in 1..Len(s) - 1 : s[i].minutes.v <= s[i + 1].minutes.v

\* C9. Bucket shape: each bucket /api/departures returns has at most 10
\* entries and is sorted non-decreasing by minutes.
C9_BucketShape ==
  \A r \in Threads :
    (pc[r] = "responded" /\ frame[r].response.buckets) =>
      /\ Len(frame[r].response.perth) <= BucketCap
      /\ Len(frame[r].response.south) <= BucketCap
      /\ SortedByMinutes(frame[r].response.perth)
      /\ SortedByMinutes(frame[r].response.south)

\* more than 10 departures towards Perth, listed out of order, cut to 10
C9_Witness ==
  \E r \in Threads :
    /\ pc[r] = "responded"
    /\ Len(InDirection(frame[r].all_deps, "0")) > BucketCap
    /\ ~SortedByMinutes(InDirection(frame[r].all_deps, "0"))
    /\ Len(frame[r].response.perth) = BucketCap
    /\ frame[r].response.perth[1].minutes.v
         < frame[r].response.perth[BucketCap].minutes.v

\* C10. Non-negative minutes: every departure fetch_all_departures emits has
\* an integer minutes value >= 0; a trip whose DepartTime cannot be
\* normalised is not emitted.
C10_MinutesNonNegative ==
  \A r \in Threads :
    /\ \A i \in 1..Len(frame[r].all_deps) :
         /\ frame[r].all_deps[i].minutes.t = "int"
         /\ frame[r].all_deps[i].minutes.v >= 0
    /\ Len(frame[r].all_deps)
         <= Cardinality({i \in 1..Len(frame[r].trips) :
                           frame[r].trips[i].depart.k = "iso"})

\* a trip with an unparseable DepartTime is dropped, and one that left more
\* than a minute before the reference time is emitted with 0 minutes
C10_Witness ==
  \E r \in Threads :
    /\ pc[r] = "responded"
    /\ Len(frame[r].trips) = 2
    /\ frame[r].trips[1].shape = "dict"
    /\ frame[r].trips[1].depart.k = "bad"
    /\ frame[r].trips[2].depart.k = "iso"
    /\ Instant(frame[r].trips[2].depart) + 60 < frame[r].ref
    /\ Len(frame[r].all_deps) = 1
    /\ frame[r].all_deps[1].minutes = IntV(0)

\* fetch_all_departures has run its trip loop on a "success" answer
Extracted(r) == Returned(r) /\ hist[r].outcome = "success"

\* C11. Empty destination is dropped: no departure fetch_all_departures emits
\* has an empty destination.
C11_NoEmptyDestination ==
  \A r \in Threads :
    \A i \in 1..Len(frame[r].all_deps) :
      frame[r].all_deps[i].destination # ""

\* the destination a trip record supplies
C12_Destination(trip) == IF trip.title # "" THEN trip.title ELSE trip.headsign

\* a trip record with every field a normalised departure needs: a dict with
\* a DepartTime that parses and a destination
C12_WellFormed(trip) ==
  /\ trip.shape = "dict"
  /\ trip.depart.k = "iso"
  /\ C12_Destination(trip) # ""

\* a trip record the loop of fetch_all_departures keeps
C12_Parseable(trip) == trip.shape = "dict" /\ trip.depart.k = "iso"

\* the departures are the rows of `kept`, one for one and in order
C12_SameRows(all_deps, kept) ==
  /\ Len(all_deps) = Len(kept)
  /\ \A i \in 1..Len(kept) :
       /\ all_deps[i].destination = C12_Destination(kept[i])
       /\ all_deps[i].direction =
            (IF kept[i].direction = "missing" THEN "0" ELSE kept[i].direction)

\* C12. Row-level isolation: for a "success" answer the departures returned
\* are exactly the well-formed trips of the list, in their order, and nothing
\* is raised.
C12_RowIsolation ==
  \A r \in Threads :
    Extracted(r) =>
      /\ ~frame[r].raised
      /\ C12_SameRows(frame[r].all_deps,
                      SelectSeq(frame[r].trips, C12_WellFormed))

\* what the code does keep: every dict-shaped trip whose DepartTime parses,
\* in order, whatever the other rows of the list are
C12_KeepsParseableRows ==
  \A r \in Threads :
    Extracted(r) =>
      /\ ~frame[r].raised
      /\ C12_SameRows(frame[r].all_deps,
                      SelectSeq(frame[r].trips, C12_Parseable))

\* seconds from the reference time to a DepartTime, a timestamp without an
\* offset being read as UTC+8
C13_SecondsAfter(depart, ref) ==
  (IF depart.aware THEN depart.wall - depart.off ELSE depart.wall - 8 * 3600)
    - ref

\* C13. ISO timestamp normalisation: a DepartTime d seconds after the
\* reference time gives floor(d / 60) minutes for d >= 0 and 0 for d < 0.
C13_IsoMinutes ==
  \A r \in Threads :
    (Extracted(r) /\ \A i \in 1..Len(frame[r].trips) :
                       C12_Parseable(frame[r].trips[i])) =>
      /\ Len(frame[r].all_deps) = Len(frame[r].trips)
      /\ \A i \in 1..Len(frame[r].trips) :
           LET d == C13_SecondsAfter(frame[r].trips[i].depart, frame[r].ref) IN
           frame[r].all_deps[i].minutes =
             IntV(IF d >= 0 THEN d \div 60 ELSE 0)

\* a naive DepartTime 7 minutes after the reference time gives 7
C13_Witness ==
  \E r \in Threads :
    /\ Extracted(r)
    /\ Len(frame[r].trips) = 1
    /\ C12_Parseable(frame[r].trips[1])
    /\ ~frame[r].trips[1].depart.aware
    /\ C13_SecondsAfter(frame[r].trips[1].depart, frame[r].ref) = 7 * 60
    /\ frame[r].all_deps[1].minutes = IntV(7)

\* C14. Buckets partition the departures: before truncation every departure
\* is in exactly one of the two direction buckets.
C14_BucketsPartition ==
  \A r \in Threads :
    \A i \in 1..Len(frame[r].all_deps) :
      LET d == frame[r].all_deps[i] IN
      /\ Len(InDirection(<<d>>, "0")) + Len(InDirection(<<d>>, "1")) = 1
      /\ Len(InDirection(frame[r].all_deps, "0"))
           + Len(InDirection(frame[r].all_deps, "1"))
           = Len(frame[r].all_deps)

\* the departures of one direction, in the upstream's order
C15_OfDirection(all_deps, code) ==
  SelectSeq(all_deps, LAMBDA d : d.direction = code)

\* the place of D[i] in the stable ascending sort of D by minutes
C15_Rank(D, i) ==
  Cardinality({j \in 1..Len(D) : D[j].minutes.v < D[i].minutes.v})
    + Cardinality({j \in 1..i : D[j].minutes.v = D[i].minutes.v})

C15_IsSortedPrefix(bucket, D) ==
  /\ Len(bucket) = (IF Len(D) < 10 THEN Len(D) ELSE 10)
  /\ \A i \in 1..Len(D) :
       C15_Rank(D, i) <= 10 => bucket[C15_Rank(D, i)] = D[i]

\* C15. Sort then truncate, stably: each bucket is the first 10 entries of
\* the stable ascending sort by minutes of the departures of its direction.
C15_SortThenTruncate ==
  \A r \in Threads :
    (pc[r] = "responded" /\ frame[r].response.buckets) =>
      /\ C15_IsSortedPrefix(frame[r].response.perth,
                            C15_OfDirection(frame[r].all_deps, "0"))
      /\ C15_IsSortedPrefix(frame[r].response.south,
                            C15_OfDirection(frame[r].all_deps, "1"))

\* twelve departures of equal minutes and two destinations, cut to the first
\* ten in the upstream's order
C15_Witness ==
  \E r \in Threads :
    /\ pc[r] = "responded"
    /\ Len(C15_OfDirection(frame[r].all_deps, "1")) > 10
    /\ Len(frame[r].response.south) = 10
    /\ frame[r].response.south[1].minutes = frame[r].response.south[2].minutes
    /\ frame[r].response.south[1].destination
         # frame[r].response.south[2].destination
    /\ frame[r].response.south[1] = frame[r].all_deps[1]

\* the stage of the pipeline handler r is in
C16_Stage(r) ==
  CASE pc[r] = "idle" -> "INIT"
    [] pc[r] \in {"gt122", "gt123", "gt124", "fpt71", "fpt74", "fpt_wait",
                  "gt129", "fad156"} -> "TOKEN_FETCH"
    [] pc[r] \in {"gs43", "gs62"} /\ frame[r].ret = "fpt74" -> "TOKEN_FETCH"
    [] pc[r] \in {"fad160", "fad186", "fad198", "post_wait"} -> "REQUEST"
    [] pc[r] \in {"gs43", "gs62"} /\ frame[r].ret = "fad186" -> "REQUEST"
    [] pc[r] = "fad229" -> "EXTRACT"
    [] pc[r] = "gd297" /\ hist[r].outcome = "success" -> "NORMALIZE_CLASSIFY"
    [] pc[r] = "responded" /\ hist[r].outcome = "success" -> "DONE"
    [] OTHER -> "FAILED"

\* the transitions of the specified state machine, and the next request
C16_Edges ==
  { <<"INIT", "TOKEN_FETCH">>, <<"TOKEN_FETCH", "FAILED">>,
    <<"TOKEN_FETCH", "REQUEST">>, <<"REQUEST", "RETRY">>,
    <<"RETRY", "REQUEST">>, <<"REQUEST", "FAILED">>, <<"REQUEST", "EXTRACT">>,
    <<"EXTRACT", "NORMALIZE_CLASSIFY">>, <<"NORMALIZE_CLASSIFY", "DONE">>,
    <<"DONE", "INIT">>, <<"FAILED", "INIT">> }

C16_StageStep ==
  \A r \in Threads :
    \/ C16_Stage(r)' = C16_Stage(r)
    \/ <<C16_Stage(r), C16_Stage(r)'>> \in C16_Edges

C16_StageInvariant ==
  \A r \in Threads :
    /\ hist[r].posts > 0 => Truthy(frame[r].hdrTok)
    /\ C16_Stage(r) = "REQUEST" => hist[r].gets <= 1
    /\ C16_Stage(r) \in {"EXTRACT", "NORMALIZE_CLASSIFY", "DONE"} =>
         hist[r].posts = 1
    /\ frame[r].all_deps # <<>> => hist[r].outcome = "success"

\* C16. Pipeline follows the specified state machine: every change of stage
\* is a transition of INIT -> TOKEN_FETCH -> REQUEST -> EXTRACT ->
\* NORMALIZE_CLASSIFY -> DONE with its FAILED and RETRY branches; the POST
\* carries a non-empty token and rows are extracted from "success" answers only.
C16_FollowsStateMachine == [](C16_StageInvariant) /\ [][C16_StageStep]_vars

\* a run that went through every stage to DONE
C16_Witness ==
  \E r \in Threads :
    /\ C16_Stage(r) = "DONE"
    /\ hist[r].gets = 1
    /\ hist[r].posts = 1
    /\ Len(frame[r].all_deps) > 0

\* C17. Every request terminates: an invocation issues at most one
\* landing-page GET and at most one data request, and every handler that has
\* started reaches its response.
C17_Terminates ==
  /\ [](\A r \in Threads : hist[r].gets <= 1 /\ hist[r].posts <= 1)
  /\ \A r \in Threads : (pc[r] # "idle") ~> (pc[r] = "responded")

\* a request answered after its landing-page fetch and its data request both
\* timed out or failed
C17_Witness ==
  \E r \in Threads :
    /\ pc[r] = "responded"
    /\ hist[r].landingFailed
    /\ hist[r].gets = 1
    /\ hist[r].posts = 1
    /\ hist[r].outcome = "timeout"

\* C18. Session is a singleton: at most one Session is ever made and every
\* caller of get_session receives the same one.
C18_SessionSingleton ==
  /\ sessionsMade <= 1
  /\ \A r \in Threads, q \in Threads :
       (frame[r].session # 0 /\ frame[q].session # 0) =>
         frame[r].session = frame[q].session

====
